---- MODULE Spec2Model ----
(***************************************************************************)
(* The data-management screen (app/routes/wipe.tsx, component WipeApp) as  *)
(* a state machine.  The React state of the component is the state of the  *)
(* model; every event handler, effect and asynchronous continuation is one *)
(* action.  JavaScript runs a handler to its next await without            *)
(* interruption and React renders (and flushes effects) before the next    *)
(* event is handled, so each action is the code between two suspension     *)
(* points.  The platform (fs.readDir, fs.read, fs.delete, kv.flush) is the *)
(* environment: every call may resolve or reject, at any later time.       *)
(***************************************************************************)
EXTENDS Bags, FiniteSets, Integers, Sequences, TLC

(* ------------------------------ bounds --------------------------------- *)

NumFiles == 2            \* files the platform holds when the screen opens
MaxPendingDeletes == 2   \* single-file fs.delete calls in flight together
MaxPendingLoads == 1     \* fs.readDir calls in flight together
MaxPendingReads == 2     \* fs.read calls in flight together
MaxUrls == 2             \* object URLs created during one run

(* ---------------------------- file items ------------------------------- *)

\* File names are sequences of characters; the three names cover the three
\* classes of the preview (image, pdf, neither) and mix the letter case.
NameOf(i) ==
  CASE i % 3 = 1 -> <<"a", ".", "P", "n", "g">>
    [] i % 3 = 2 -> <<"b", ".", "p", "d", "f">>
    [] OTHER     -> <<"c", ".", "t", "x", "t">>

FSItem(i) ==
  [id |-> i, name |-> <<ToString(i)>> \o NameOf(i),
   path |-> <<".", "/", ToString(i)>> \o NameOf(i)]

NoFile == [id |-> 0, name |-> <<>>, path |-> <<>>]   \* null of type FSItem | null

FileIds == 1..NumFiles
AllFiles == {FSItem(i) : i \in FileIds}

(* ------------------------ values of rejections ------------------------- *)

\* What a rejected platform call throws: an error with a message, an error
\* whose message is empty, or a value with no message at all.
ErrValues ==
  { [hasMessage |-> TRUE,  message |-> "EIO"],
    [hasMessage |-> TRUE,  message |-> ""],
    [hasMessage |-> FALSE, message |-> ""] }

NoError == [hasMessage |-> FALSE, message |-> "<resolved>"]   \* the call resolved

Outcomes == {NoError} \cup ErrValues

\* err.message without the fallback
ErrorMessageRaw(err, fallback) == err.message

\* err?.message || fallback
ErrorMessageOr(err, fallback) ==
  IF err.hasMessage /\ err.message # "" THEN err.message ELSE fallback

NullText == "<null>"     \* null of type string | null

ConfirmInputs == {"", "delete", "DELETE"}

(* ------------------------------- state --------------------------------- *)

VARIABLES
  mounted,       \* the component is mounted
  platform,      \* files the platform holds in "./"
  kvStore,       \* keys the platform's key-value store holds
  files, wiping, wiped, wipeProgress, showConfirm, confirmText,
  fileToDelete, deleteError, previewFile, previewUrl, previewType,
  wipePc,        \* where handleWipeAll is suspended: "idle", "delete", "flush"
  wipeFiles,     \* the files array handleWipeAll closed over
  wipeIdx,       \* its loop variable i
  wipeCalls,     \* paths of the fs.delete calls this wipe has issued, in order
  wipeOutcomes,  \* how each settled one ended (NoError: it resolved), in order
  flushCalls,    \* kv.flush calls this wipe has issued
  deletes,       \* bag of confirmDeleteFile calls awaiting fs.delete (the closed-over file)
  loads,         \* bag of loadFiles calls awaiting fs.readDir
  reads,         \* bag of preview effects awaiting fs.read (the closed-over file)
  cleanupUrl,    \* previewUrl closed over by the pending effect cleanup (0: none)
  created,       \* number of object URLs created so far; they are 1..created
  liveUrls,      \* object URLs created and not revoked
  urlSource,     \* urlSource[u]: the file whose blob object URL u was created from
  uncaught       \* operations whose promise rejected with nobody catching it

uiVars == <<files, wiping, wiped, wipeProgress, showConfirm, confirmText,
            fileToDelete, deleteError, previewFile, previewUrl, previewType>>
wipeVars == <<wipePc, wipeFiles, wipeIdx, wipeCalls, wipeOutcomes, flushCalls>>
urlVars == <<cleanupUrl, created, liveUrls, urlSource>>
vars == <<mounted, platform, kvStore, uiVars, wipeVars, deletes, loads, reads,
          urlVars, uncaught>>

(* ------------------------------ helpers -------------------------------- *)

\* fs.readDir lists the directory in a fixed order (here: by id).
RECURSIVE Listing(_)
Listing(S) ==
  IF S = {} THEN <<>>
  ELSE LET m == CHOOSE f \in S : \A g \in S : f.id <= g.id
       IN  <<m>> \o Listing(S \ {m})

Range(s) == {s[k] : k \in DOMAIN s}

\* String.prototype.toLowerCase on one character (the letters file names use).
ToLower(c) ==
  CASE c = "P" -> "p" [] c = "N" -> "n" [] c = "G" -> "g" [] c = "D" -> "d"
    [] c = "F" -> "f" [] c = "J" -> "j" [] c = "E" -> "e" [] c = "I" -> "i"
    [] OTHER -> c

\* name matches /<suffix>$/i
EndsWithNoCase(name, suffix) ==
  /\ Len(name) >= Len(suffix)
  /\ \A k \in 1..Len(suffix) :
       ToLower(name[Len(name) - Len(suffix) + k]) = suffix[k]

isImage(name) ==
  \/ EndsWithNoCase(name, <<".", "p", "n", "g">>)
  \/ EndsWithNoCase(name, <<".", "j", "p", "g">>)
  \/ EndsWithNoCase(name, <<".", "j", "p", "e", "g">>)
  \/ EndsWithNoCase(name, <<".", "g", "i", "f">>)

isPDF(name) == EndsWithNoCase(name, <<".", "p", "d", "f">>)

NullType == "null"

\* what the preview effect stores in previewType for a file name
PreviewTypeOf(name) ==
  IF isImage(name) THEN "image" ELSE IF isPDF(name) THEN "pdf" ELSE NullType

\* the preview modal is rendered
PreviewShown == previewFile # NoFile /\ previewUrl # 0 /\ previewType # NullType

\* a full-screen modal backdrop lies over the file rows
Overlay == showConfirm \/ fileToDelete # NoFile \/ PreviewShown

\* setWipeProgress({ current: 0, total: files.length, name: "", errors: [] })
InitialProgress(list) == [current |-> 0, total |-> Len(list), name |-> <<>>, errors |-> <<>>]

\* a progress counter that shows the loop variable itself
SetCurrentIndex(p, i, list) == [p EXCEPT !.current = i, !.name = list[i + 1].name]

\* setWipeProgress((p) => ({ ...p, current: i + 1, name: files[i].name }))
SetCurrent(p, i, list) == [p EXCEPT !.current = i + 1, !.name = list[i + 1].name]

\* setWipeProgress((p) => ({ ...p, errors: [...p.errors, { name, error }] }))
AppendError(p, item, err) ==
  [p EXCEPT !.errors = Append(@, [name |-> item.name,
                                  error |-> ErrorMessageOr(err, "Unknown error")])]

\* a loop that stops one entry early
LoopCondShort(i, list) == i < Len(list) - 1

\* the loop condition: i < files.length
LoopCond(i, list) == i < Len(list)

\* a loop that tries a rejected delete again
NextIndexRetry(i, outcome) == IF outcome = NoError THEN i + 1 ELSE i

\* the loop variable after the body for index i has run (i++), whatever the
\* outcome of the awaited delete
NextIndex(i, outcome) == i + 1

\* a filter that drops the entry at the head of the list instead
RemoveHead(prev, id) == IF prev = <<>> THEN prev ELSE Tail(prev)

\* prev.filter((f) => f.id !== fileToDelete.id)
RemoveById(prev, id) == SelectSeq(prev, LAMBDA f : f.id # id)

\* what fs.delete(path) leaves on the platform when it resolves / rejects
PlatformAfterDelete(store, path, outcome) ==
  IF outcome = NoError THEN {f \in store : f.path # path} ELSE store

\* cleanup of the preview effect: if (previewUrl) URL.revokeObjectURL(previewUrl)
AfterCleanup(live, url) == IF url # 0 THEN live \ {url} ELSE live

(* -------------------------------- Init --------------------------------- *)

\* The state after the first render and its effects: all state at its
\* useState default, and the mount effect has called loadFiles().
Init ==
  /\ mounted = TRUE
  /\ platform = AllFiles
  /\ kvStore = {"resume"}
  /\ files = <<>>
  /\ wiping = FALSE
  /\ wiped = FALSE
  /\ wipeProgress = [current |-> 0, total |-> 0, name |-> <<>>, errors |-> <<>>]
  /\ showConfirm = FALSE
  /\ confirmText = ""
  /\ fileToDelete = NoFile
  /\ deleteError = NullText
  /\ previewFile = NoFile
  /\ previewUrl = 0
  /\ previewType = NullType
  /\ wipePc = "idle"
  /\ wipeFiles = <<>>
  /\ wipeIdx = 0
  /\ wipeCalls = <<>>
  /\ wipeOutcomes = <<>>
  /\ flushCalls = 0
  /\ deletes = EmptyBag
  /\ loads = SetToBag({[served |-> FALSE, listing |-> <<>>]})
  /\ reads = EmptyBag
  /\ cleanupUrl = 0
  /\ created = 0
  /\ liveUrls = {}
  /\ urlSource = <<>>
  /\ uncaught = {}

(* --------------------------- loadFiles --------------------------------- *)

NewLoad == [served |-> FALSE, listing |-> <<>>]

\* The platform reads the directory for a pending fs.readDir: the listing it
\* will answer with is the directory as it is now.
ReadDirServe ==
  /\ BagIn(NewLoad, loads)
  /\ loads' = (loads (-) SetToBag({NewLoad}))
                (+) SetToBag({[served |-> TRUE, listing |-> Listing(platform)]})
  /\ UNCHANGED <<mounted, platform, kvStore, uiVars, wipeVars, deletes, reads,
                 urlVars, uncaught>>

\* loadFiles resumes with the listing: setFiles(files || [])
ReadDirResolve ==
  \E l \in BagToSet(loads) :
    /\ l.served
    /\ loads' = loads (-) SetToBag({l})
    /\ files' = IF mounted THEN l.listing ELSE files
    /\ UNCHANGED <<mounted, platform, kvStore, wiping, wiped, wipeProgress,
                   showConfirm, confirmText, fileToDelete, deleteError,
                   previewFile, previewUrl, previewType, wipeVars, deletes,
                   reads, urlVars, uncaught>>

\* fs.readDir resolves with undefined: setFiles([])
ReadDirUndefined ==
  \E l \in BagToSet(loads) :
    /\ loads' = loads (-) SetToBag({l})
    /\ files' = IF mounted THEN <<>> ELSE files
    /\ UNCHANGED <<mounted, platform, kvStore, wiping, wiped, wipeProgress,
                   showConfirm, confirmText, fileToDelete, deleteError,
                   previewFile, previewUrl, previewType, wipeVars, deletes,
                   reads, urlVars, uncaught>>

\* fs.readDir rejects: loadFiles has no try/catch and nobody awaits it
ReadDirReject ==
  \E l \in BagToSet(loads) :
    /\ loads' = loads (-) SetToBag({l})
    /\ uncaught' = uncaught \cup {"loadFiles"}
    /\ UNCHANGED <<mounted, platform, kvStore, uiVars, wipeVars, deletes, reads,
                   urlVars>>

(* -------------------------- handleWipeAll ------------------------------ *)

\* The loop of handleWipeAll from its head with loop variable i up to the next
\* await: either the body up to `await fs.delete(files[i].path)` or, when the
\* loop is over, `await kv.flush()`.  p is wipeProgress as updated so far.
WipeRunTo(list, i, p, calls, flushes) ==
  /\ wipeFiles' = list
  /\ wipeIdx' = i
  /\ IF LoopCond(i, list)
       THEN /\ wipePc' = "delete"
            /\ wipeCalls' = Append(calls, list[i + 1].path)
            /\ flushCalls' = flushes
            /\ wipeProgress' = IF mounted THEN SetCurrent(p, i, list) ELSE wipeProgress
       ELSE /\ wipePc' = "flush"
            /\ wipeCalls' = calls
            /\ flushCalls' = flushes + 1
            /\ wipeProgress' = IF mounted THEN p ELSE wipeProgress

\* a Wipe All button that an empty list does not disable
WipeAllDisabledWipingOnly == wiping

\* the Wipe All button: disabled={wiping || files.length === 0}
WipeAllDisabled == wiping \/ Len(files) = 0

\* a Confirm Wipe button that does not look at the typed text
ConfirmDisabledWipingOnly == wiping

\* a Confirm Wipe button that a running wipe does not disable
ConfirmDisabledTextOnly == confirmText # "DELETE"

\* the Confirm Wipe button: disabled={confirmText !== "DELETE" || wiping}
ConfirmDisabled == confirmText # "DELETE" \/ wiping

\* "Wipe All App Data": onClick={() => setShowConfirm(true)}
OpenConfirm ==
  /\ mounted
  /\ ~WipeAllDisabled
  /\ showConfirm' = TRUE
  /\ UNCHANGED <<mounted, platform, kvStore, files, wiping, wiped, wipeProgress,
                 confirmText, fileToDelete, deleteError, previewFile, previewUrl,
                 previewType, wipeVars, deletes, loads, reads, urlVars, uncaught>>

\* the input of the confirm modal: onChange={(e) => setConfirmText(e.target.value)}
TypeConfirm ==
  \E t \in ConfirmInputs :
    /\ mounted
    /\ showConfirm
    /\ t # confirmText
    /\ confirmText' = t
    /\ UNCHANGED <<mounted, platform, kvStore, files, wiping, wiped, wipeProgress,
                   showConfirm, fileToDelete, deleteError, previewFile, previewUrl,
                   previewType, wipeVars, deletes, loads, reads, urlVars, uncaught>>

\* Cancel of the confirm modal
CancelConfirm ==
  /\ mounted
  /\ showConfirm
  /\ showConfirm' = FALSE
  /\ confirmText' = ""
  /\ UNCHANGED <<mounted, platform, kvStore, files, wiping, wiped, wipeProgress,
                 fileToDelete, deleteError, previewFile, previewUrl, previewType,
                 wipeVars, deletes, loads, reads, urlVars, uncaught>>

\* "Confirm Wipe": onClick={handleWipeAll}; the button is rendered while
\* showConfirm.  handleWipeAll runs up to its first await.
HandleWipeAll ==
  /\ mounted
  /\ showConfirm
  /\ ~ConfirmDisabled
  /\ BagCardinality(loads) < MaxPendingLoads
  /\ wiping' = TRUE
  /\ wiped' = FALSE
  /\ wipeOutcomes' = <<>>
  /\ WipeRunTo(files, 0, InitialProgress(files), <<>>, 0)
  /\ UNCHANGED <<mounted, platform, kvStore, files, showConfirm, confirmText,
                 fileToDelete, deleteError, previewFile, previewUrl, previewType,
                 deletes, loads, reads, urlVars, uncaught>>

\* `await fs.delete(files[i].path)` of the loop settles; the catch block runs
\* if it rejected, then the loop goes on to its next await.
WipeDeleteSettle ==
  \E outcome \in Outcomes :
    /\ wipePc = "delete"
    /\ platform' = PlatformAfterDelete(platform, wipeFiles[wipeIdx + 1].path, outcome)
    /\ wipeOutcomes' = Append(wipeOutcomes, outcome)
    /\ WipeRunTo(wipeFiles, NextIndex(wipeIdx, outcome),
                 IF outcome = NoError THEN wipeProgress
                 ELSE AppendError(wipeProgress, wipeFiles[wipeIdx + 1], outcome),
                 wipeCalls, flushCalls)
    /\ UNCHANGED <<mounted, kvStore, files, wiping, wiped, showConfirm, confirmText,
                   fileToDelete, deleteError, previewFile, previewUrl, previewType,
                   deletes, loads, reads, urlVars, uncaught>>

\* `await kv.flush()` resolves: the rest of handleWipeAll runs, ending with
\* loadFiles()
WipeFlushResolve ==
  /\ wipePc = "flush"
  /\ wipePc' = "idle"
  /\ kvStore' = {}
  /\ wiping' = IF mounted THEN FALSE ELSE wiping
  /\ wiped' = IF mounted THEN TRUE ELSE wiped
  /\ showConfirm' = IF mounted THEN FALSE ELSE showConfirm
  /\ confirmText' = IF mounted THEN "" ELSE confirmText
  /\ loads' = loads (+) SetToBag({NewLoad})
  /\ UNCHANGED <<mounted, platform, files, wipeProgress, fileToDelete, deleteError,
                 previewFile, previewUrl, previewType, wipeFiles, wipeIdx,
                 wipeCalls, wipeOutcomes, flushCalls, deletes, reads, urlVars,
                 uncaught>>

\* `await kv.flush()` rejects: handleWipeAll has no try/catch around it, the
\* exception leaves the handler and nothing after the await runs
WipeFlushReject ==
  /\ wipePc = "flush"
  /\ wipePc' = "idle"
  /\ uncaught' = uncaught \cup {"handleWipeAll"}
  /\ UNCHANGED <<mounted, platform, kvStore, uiVars, wipeFiles, wipeIdx, wipeCalls,
                 wipeOutcomes, flushCalls, deletes, loads, reads, urlVars>>

(* ---------------------- single-file delete ----------------------------- *)

\* the delete button of a file row: handleDeleteFile(file)
HandleDeleteFile ==
  \E f \in Range(files) :
    /\ mounted
    /\ fileToDelete' = f
    /\ deleteError' = NullText
    /\ <<fileToDelete, deleteError>> # <<f, NullText>>
    /\ UNCHANGED <<mounted, platform, kvStore, files, wiping, wiped, wipeProgress,
                   showConfirm, confirmText, previewFile, previewUrl, previewType,
                   wipeVars, deletes, loads, reads, urlVars, uncaught>>

\* Cancel of the delete modal
CancelDelete ==
  /\ mounted
  /\ fileToDelete # NoFile
  /\ fileToDelete' = NoFile
  /\ deleteError' = NullText
  /\ UNCHANGED <<mounted, platform, kvStore, files, wiping, wiped, wipeProgress,
                 showConfirm, confirmText, previewFile, previewUrl, previewType,
                 wipeVars, deletes, loads, reads, urlVars, uncaught>>

\* Delete of the delete modal: confirmDeleteFile up to `await fs.delete(...)`.
\* The button is rendered only while fileToDelete is set, and is never disabled.
ConfirmDeleteFile ==
  /\ mounted
  /\ fileToDelete # NoFile
  /\ BagCardinality(deletes) < MaxPendingDeletes
  /\ deletes' = deletes (+) SetToBag({fileToDelete})
  /\ UNCHANGED <<mounted, platform, kvStore, uiVars, wipeVars, loads, reads,
                 urlVars, uncaught>>

\* `await fs.delete(fileToDelete.path)` of confirmDeleteFile resolves; F is the
\* fileToDelete the call closed over
DeleteResolve(F) ==
  /\ BagIn(F, deletes)
  /\ deletes' = deletes (-) SetToBag({F})
  /\ platform' = PlatformAfterDelete(platform, F.path, NoError)
  /\ files' = IF mounted THEN RemoveById(files, F.id) ELSE files
  /\ fileToDelete' = IF mounted THEN NoFile ELSE fileToDelete
  /\ UNCHANGED <<mounted, kvStore, wiping, wiped, wipeProgress, showConfirm,
                 confirmText, deleteError, previewFile, previewUrl, previewType,
                 wipeVars, loads, reads, urlVars, uncaught>>

\* ... or rejects with err: the catch block runs
DeleteReject(F, err) ==
  /\ BagIn(F, deletes)
  /\ deletes' = deletes (-) SetToBag({F})
  /\ platform' = PlatformAfterDelete(platform, F.path, err)
  /\ deleteError' = IF mounted THEN ErrorMessageOr(err, "Failed to delete file")
                    ELSE deleteError
  /\ UNCHANGED <<mounted, kvStore, files, wiping, wiped, wipeProgress, showConfirm,
                 confirmText, fileToDelete, previewFile, previewUrl, previewType,
                 wipeVars, loads, reads, urlVars, uncaught>>

DeleteSettle ==
  \E F \in AllFiles :
    \/ DeleteResolve(F)
    \/ \E err \in ErrValues : DeleteReject(F, err)

(* ------------------------------ preview -------------------------------- *)

\* a click on a file row: openPreview(file); then the preview effect runs for
\* the new previewFile: the cleanup of the previous run, then the new run,
\* which starts fs.read and whose cleanup closes over this render's previewUrl
OpenPreview ==
  \E f \in Range(files) :
    /\ mounted
    /\ ~Overlay
    /\ f # previewFile
    /\ BagCardinality(reads) < MaxPendingReads
    /\ created + BagCardinality(reads) < MaxUrls
    /\ previewFile' = f
    /\ liveUrls' = AfterCleanup(liveUrls, cleanupUrl)
    /\ cleanupUrl' = previewUrl
    /\ reads' = reads (+) SetToBag({f})
    /\ UNCHANGED <<mounted, platform, kvStore, files, wiping, wiped, wipeProgress,
                   showConfirm, confirmText, fileToDelete, deleteError, previewUrl,
                   previewType, wipeVars, deletes, loads, created, urlSource,
                   uncaught>>

\* closePreview (the close button of the modal) or the Escape key handler:
\* setPreviewFile(null); the effect's previous cleanup runs, and the new run
\* clears previewUrl and previewType and registers no cleanup
ClosePreview ==
  /\ mounted
  /\ previewFile # NoFile
  /\ previewFile' = NoFile
  /\ liveUrls' = AfterCleanup(liveUrls, cleanupUrl)
  /\ cleanupUrl' = 0
  /\ previewUrl' = 0
  /\ previewType' = NullType
  /\ UNCHANGED <<mounted, platform, kvStore, files, wiping, wiped, wipeProgress,
                 showConfirm, confirmText, fileToDelete, deleteError, wipeVars,
                 deletes, loads, reads, created, urlSource, uncaught>>

\* `await fs.read(previewFile.path)` resolves with a blob; F is the previewFile
\* the effect run closed over
ReadResolve ==
  \E F \in BagToSet(reads) :
    /\ reads' = reads (-) SetToBag({F})
    /\ created' = created + 1
    /\ liveUrls' = liveUrls \cup {created + 1}
    /\ urlSource' = Append(urlSource, F)
    /\ previewUrl' = IF mounted THEN created + 1 ELSE previewUrl
    /\ previewType' = IF mounted THEN PreviewTypeOf(F.name) ELSE previewType
    /\ UNCHANGED <<mounted, platform, kvStore, files, wiping, wiped, wipeProgress,
                   showConfirm, confirmText, fileToDelete, deleteError, previewFile,
                   wipeVars, deletes, loads, cleanupUrl, uncaught>>

\* ... resolves with no blob: if (!blob) return
ReadNoBlob ==
  \E F \in BagToSet(reads) :
    /\ reads' = reads (-) SetToBag({F})
    /\ UNCHANGED <<mounted, platform, kvStore, uiVars, wipeVars, deletes, loads,
                   urlVars, uncaught>>

\* ... or rejects: the catch block clears previewUrl and previewType
ReadReject ==
  \E F \in BagToSet(reads) :
    /\ reads' = reads (-) SetToBag({F})
    /\ previewUrl' = IF mounted THEN 0 ELSE previewUrl
    /\ previewType' = IF mounted THEN NullType ELSE previewType
    /\ UNCHANGED <<mounted, platform, kvStore, files, wiping, wiped, wipeProgress,
                   showConfirm, confirmText, fileToDelete, deleteError, previewFile,
                   wipeVars, deletes, loads, urlVars, uncaught>>

(* ------------------------------ unmount -------------------------------- *)

\* The component unmounts (navigation away, or the redirect to /auth): the
\* pending effect cleanup runs; from now on state updates are dropped, while
\* the asynchronous functions already started run on.
Unmount ==
  /\ mounted
  /\ mounted' = FALSE
  /\ liveUrls' = AfterCleanup(liveUrls, cleanupUrl)
  /\ cleanupUrl' = 0
  /\ UNCHANGED <<platform, kvStore, uiVars, wipeVars, deletes, loads, reads,
                 created, urlSource, uncaught>>

(* --------------------------- specification ----------------------------- *)

\* loadFiles and the platform's side of fs.readDir
LoadNext ==
  \/ ReadDirServe
  \/ ReadDirResolve
  \/ ReadDirUndefined
  \/ ReadDirReject

\* The wipe and the single-file delete: every action but the preview's.  None
\* of them reads what the preview writes (previewFile, previewUrl, previewType,
\* reads, urlVars).
Next ==
  \/ LoadNext
  \/ OpenConfirm
  \/ TypeConfirm
  \/ CancelConfirm
  \/ HandleWipeAll
  \/ WipeDeleteSettle
  \/ WipeFlushResolve
  \/ WipeFlushReject
  \/ HandleDeleteFile
  \/ CancelDelete
  \/ ConfirmDeleteFile
  \/ DeleteSettle
  \/ Unmount

Spec == Init /\ [][Next]_vars

\* The wipe alone.  The single-file delete writes files, platform,
\* fileToDelete, deleteError and deletes; the wipe reads of these only files,
\* once, when handleWipeAll closes over it, and every list the single-file
\* delete can leave there (a sub-list of a directory listing) is also the
\* listing of a directory some wipe has left.
WipeNext ==
  \/ LoadNext
  \/ OpenConfirm
  \/ TypeConfirm
  \/ CancelConfirm
  \/ HandleWipeAll
  \/ WipeDeleteSettle
  \/ WipeFlushResolve
  \/ WipeFlushReject
  \/ Unmount

WipeSpec == Init /\ [][WipeNext]_vars

\* The single-file delete alone, with the other writer of files (loadFiles).
DeleteNext ==
  \/ LoadNext
  \/ HandleDeleteFile
  \/ CancelDelete
  \/ ConfirmDeleteFile
  \/ DeleteSettle
  \/ Unmount

DeleteSpec == Init /\ [][DeleteNext]_vars

\* The preview, with everything it reads: the file list (loadFiles, the
\* single-file delete) and the modals whose backdrop covers the file rows.
PreviewNext ==
  \/ LoadNext
  \/ OpenConfirm
  \/ CancelConfirm
  \/ HandleDeleteFile
  \/ CancelDelete
  \/ ConfirmDeleteFile
  \/ DeleteSettle
  \/ OpenPreview
  \/ ClosePreview
  \/ ReadResolve
  \/ ReadNoBlob
  \/ ReadReject
  \/ Unmount

PreviewSpec == Init /\ [][PreviewNext]_vars

TypeOK ==
  /\ mounted \in BOOLEAN
  /\ platform \subseteq AllFiles
  /\ wipePc \in {"idle", "delete", "flush"}
  /\ previewUrl \in 0..MaxUrls
  /\ created \in 0..MaxUrls
  /\ Len(urlSource) = created /\ Range(urlSource) \subseteq AllFiles
  /\ BagCardinality(deletes) <= MaxPendingDeletes
  /\ BagCardinality(loads) <= MaxPendingLoads
  /\ BagCardinality(reads) <= MaxPendingReads

(* ------------------------------ claims --------------------------------- *)

\* the entries of wipeFiles whose delete has settled with a rejection, as the
\* list of errors the progress panel is to show
RejectedIndexes == SelectSeq([k \in 1..Len(wipeOutcomes) |-> k],
                             LAMBDA k : wipeOutcomes[k] # NoError)

ExpectedErrors ==
  [j \in 1..Len(RejectedIndexes) |->
     LET k == RejectedIndexes[j]
         e == wipeOutcomes[k]
     IN  [name |-> wipeFiles[k].name,
          error |-> IF e.hasMessage /\ e.message # "" THEN e.message
                    ELSE "Unknown error"]]

\* C1: the fs.delete calls a wipe has issued are the paths of the first entries
\* of the list handleWipeAll closed over, one call per entry in list order
\* (so a rejected delete is not issued again); at most one of them is
\* unsettled, and it is the last one issued; once the loop is over every entry
\* of the list has had its call and every call has settled.
C1_DeletesInListOrder ==
  /\ Len(wipeCalls) <= Len(wipeFiles)
  /\ \A k \in 1..Len(wipeCalls) : wipeCalls[k] = wipeFiles[k].path
  /\ Len(wipeOutcomes) <= Len(wipeCalls)
  /\ Len(wipeCalls) <= Len(wipeOutcomes) + 1
  /\ (wipePc = "delete") = (Len(wipeCalls) = Len(wipeOutcomes) + 1)
  /\ wipePc # "delete" => Len(wipeCalls) = Len(wipeFiles)

\* a wipe of at least two files is over and one of its deletes was rejected
C1_Witness ==
  /\ wipePc = "idle"
  /\ Len(wipeCalls) >= 2
  /\ \E k \in 1..Len(wipeOutcomes) : wipeOutcomes[k] # NoError

\* C2: a rejected delete does not end the loop (when the loop is over, every
\* entry of the list has been attempted), and while the component is mounted
\* wipeProgress.errors is exactly the list of the rejected entries so far, in
\* list order, each with the rejection's message or "Unknown error".
C2_ErrorsPerRejectedDelete ==
  /\ wipePc # "delete" => Len(wipeOutcomes) = Len(wipeFiles)
  /\ mounted => wipeProgress.errors = ExpectedErrors

\* the loop is over; a delete with a message and a later one without were
\* rejected, or a rejected delete was followed by a resolved one
C2_Witness ==
  /\ mounted
  /\ wipePc = "flush"
  /\ Len(wipeOutcomes) >= 2
  /\ wipeOutcomes[1] # NoError
  /\ \/ wipeOutcomes[2] = NoError /\ Len(wipeProgress.errors) = 1
     \/ /\ wipeOutcomes[1].hasMessage /\ wipeOutcomes[1].message # ""
        /\ ~wipeOutcomes[2].hasMessage
        /\ wipeProgress.errors[2].error = "Unknown error"

\* C9: 0 <= current <= total and errors has at most current entries; total is
\* the length of the list the wipe closed over; current is the number of
\* entries attempted so far, it equals total once the loop is over, and in a
\* step that does not start a wipe total keeps its value and current stays
\* or grows by one.
C9_ProgressStateOK ==
  /\ 0 <= wipeProgress.current
  /\ wipeProgress.current <= wipeProgress.total
  /\ Len(wipeProgress.errors) <= wipeProgress.current
  /\ wipeProgress.total = Len(wipeFiles)
  /\ mounted => wipeProgress.current = Len(wipeCalls)
  /\ mounted /\ wipePc # "delete" => wipeProgress.current = wipeProgress.total

C9_ProgressStep ==
  \/ wiping' /\ ~wiping
  \/ /\ wipeProgress'.total = wipeProgress.total
     /\ wipeProgress'.current \in {wipeProgress.current, wipeProgress.current + 1}
     /\ wipeProgress'.current = wipeProgress.current + 1
          <=> mounted /\ Len(wipeCalls') = Len(wipeCalls) + 1

C9_Progress == []C9_ProgressStateOK /\ [][C9_ProgressStep]_vars

\* a wipe of two files is over, with one error collected
C9_Witness ==
  /\ mounted
  /\ wipePc = "idle"
  /\ wipeProgress.current = 2
  /\ wipeProgress.total = 2
  /\ Len(wipeProgress.errors) = 1

\* C10: a wipe issues kv.flush at most once, and only when the delete of every
\* entry of its list has settled, rejected or not; while the wipe is running
\* wiping is true and wiped false; wiping becomes false, wiped becomes true
\* and loadFiles is called only in the step in which kv.flush resolves, and
\* that step also sets showConfirm = false and confirmText = "".
C10_FlushStateOK ==
  /\ flushCalls <= 1
  /\ (wipePc = "flush") => flushCalls = 1
  /\ flushCalls = 1 => Len(wipeOutcomes) = Len(wipeFiles)
  /\ wipePc = "delete" => flushCalls = 0
  /\ mounted /\ wipePc # "idle" => wiping /\ ~wiped

FlushResolves ==
  wipePc = "flush" /\ wipePc' = "idle" /\ kvStore' = {} /\ uncaught' = uncaught

C10_FlushStep ==
  /\ wiping /\ ~wiping' => FlushResolves
  /\ ~wiped /\ wiped' => FlushResolves
  /\ BagCardinality(loads') > BagCardinality(loads) => FlushResolves
  /\ FlushResolves =>
       /\ BagCardinality(loads') = BagCardinality(loads) + 1
       /\ mounted => ~wiping' /\ wiped' /\ ~showConfirm' /\ confirmText' = ""

C10_FlushOnceAtEnd == []C10_FlushStateOK /\ [][C10_FlushStep]_vars

\* a wipe in which a delete was rejected has finished: kv.flush resolved
C10_Witness ==
  /\ mounted
  /\ wipePc = "idle"
  /\ flushCalls = 1
  /\ wiped /\ ~wiping /\ ~showConfirm /\ confirmText = ""
  /\ kvStore = {}
  /\ Len(wipeProgress.errors) >= 1

\* C3: no rejection of a platform call escapes the operation that issued the
\* call.
C3_NoUncaughtRejection == uncaught = {}

\* C4: when the success banner is shown (wiped and not wiping), no file of the
\* list the wipe closed over is left on the platform and the key-value store
\* is empty.
C4_WipedMeansAllDeleted ==
  mounted /\ wiped /\ ~wiping =>
    /\ \A k \in 1..Len(wipeFiles) : wipeFiles[k] \notin platform
    /\ kvStore = {}

\* the platform mutations in flight: the wipe's pending fs.delete or kv.flush,
\* and the pending fs.delete of every confirmDeleteFile
MutationsInFlight == (IF wipePc = "idle" THEN 0 ELSE 1) + BagCardinality(deletes)

\* the suspended asynchronous functions that will write the file list
\* (loadFiles, confirmDeleteFile) and the delete-modal state (confirmDeleteFile)
FilesWritersInFlight == BagCardinality(loads) + BagCardinality(deletes)
ModalWritersInFlight == BagCardinality(deletes)

\* C5: at most one platform mutation is in flight, and at most one suspended
\* operation is about to write the file list or the delete-modal state.
C5_NoConcurrentMutations ==
  /\ MutationsInFlight <= 1
  /\ FilesWritersInFlight <= 1
  /\ ModalWritersInFlight <= 1

\* C6: after unmount, and after a close with no read pending, every object URL
\* that was created has been revoked.
C6_EveryUrlRevoked ==
  /\ ~mounted => liveUrls = {}
  /\ previewFile = NoFile /\ reads = EmptyBag => liveUrls = {}

\* C7: a wipe whose platform calls have all settled has ended with
\* wiping = false.
C7_SettledWipeNotWiping == mounted /\ wipePc = "idle" => ~wiping

\* C8: when the fs.delete of confirmDeleteFile for F resolves, the file list
\* loses exactly its entries with id = F.id and the modal closes; when it
\* rejects, the file list and fileToDelete keep their values and deleteError
\* becomes the rejection's message, or "Failed to delete file" if it has none;
\* and a single-file fs.delete is issued only for the file the modal shows.
C8_ConfirmDeleteStep ==
  /\ \A F \in AllFiles :
       /\ mounted /\ DeleteResolve(F) =>
            /\ files' = SelectSeq(files, LAMBDA f : f.id # F.id)
            /\ fileToDelete' = NoFile
            /\ deleteError' = deleteError
       /\ \A err \in ErrValues :
            mounted /\ DeleteReject(F, err) =>
              /\ files' = files
              /\ fileToDelete' = fileToDelete
              /\ deleteError' = IF err.hasMessage /\ err.message # ""
                                THEN err.message ELSE "Failed to delete file"
  /\ deletes' # deletes /\ BagCardinality(deletes') > BagCardinality(deletes) =>
       /\ fileToDelete # NoFile
       /\ deletes' = deletes (+) SetToBag({fileToDelete})
       /\ UNCHANGED <<files, fileToDelete, deleteError, platform>>

C8_ConfirmDeleteFile == [][C8_ConfirmDeleteStep]_vars

\* a file was deleted from a list of two, which kept the other one, and then
\* the delete of that other one was rejected with no message
C8_Witness ==
  /\ mounted
  /\ Len(files) = 1
  /\ fileToDelete = files[1]
  /\ deleteError = "Failed to delete file"
  /\ deletes = EmptyBag
  /\ Cardinality(platform) = 1

\* C12: a wipe loop runs only while wiping is true, handleWipeAll starts only
\* while wiping is false and no wipe loop is running, and the Wipe All button
\* opens the confirm modal only while wiping is false and the file list is
\* not empty.
C12_LoopImpliesWiping == mounted /\ wipePc # "idle" => wiping

C12_StartStep ==
  /\ HandleWipeAll => ~wiping /\ wipePc = "idle"
  /\ ~showConfirm /\ showConfirm' => ~wiping /\ Len(files) > 0

C12_OneWipeAtATime == []C12_LoopImpliesWiping /\ [][C12_StartStep]_vars

\* a wipe is running with the confirm modal still open on the text DELETE
\* (only wiping disables Confirm Wipe), or with the modal cancelled and the
\* list not empty (only wiping disables Wipe All)
C12_Witness ==
  /\ mounted
  /\ wipePc = "delete"
  /\ wiping
  /\ \/ showConfirm /\ confirmText = "DELETE"
     \/ ~showConfirm /\ Len(files) > 0

\* The two confirmations: every user action of the confirm modal and of the
\* delete modal, handleWipeAll up to its first await, and the single-file
\* delete with its continuation.  The platform leaves the wipe's first call
\* pending here; how a started wipe goes on is WipeSpec.
ConfirmNext ==
  \/ LoadNext
  \/ OpenConfirm
  \/ TypeConfirm
  \/ CancelConfirm
  \/ HandleWipeAll
  \/ HandleDeleteFile
  \/ CancelDelete
  \/ ConfirmDeleteFile
  \/ DeleteSettle
  \/ Unmount

ConfirmSpec == Init /\ [][ConfirmNext]_vars

\* C11: a wipe starts only in a state in which the confirm modal is open,
\* confirmText is "DELETE" and wiping is false; the wipe's fs.delete and
\* kv.flush calls are issued only by a running wipe; a single-file fs.delete
\* is issued only while the delete modal shows a file, and for that file;
\* selecting a file, opening the confirm modal, typing and the two Cancel
\* buttons issue no platform call.
C11_ConfirmedStep ==
  /\ wipePc = "idle" /\ wipePc' # "idle" =>
       mounted /\ showConfirm /\ confirmText = "DELETE" /\ ~wiping
  /\ Len(wipeCalls') > Len(wipeCalls) \/ flushCalls' > flushCalls =>
       /\ wipePc' # "idle"
       /\ wipePc = "idle" => showConfirm /\ confirmText = "DELETE" /\ ~wiping
  /\ deletes' # deletes /\ BagCardinality(deletes') >= BagCardinality(deletes) =>
       /\ mounted
       /\ fileToDelete # NoFile
       /\ deletes' = deletes (+) SetToBag({fileToDelete})
  /\ HandleDeleteFile \/ CancelDelete \/ OpenConfirm \/ TypeConfirm \/ CancelConfirm =>
       UNCHANGED <<platform, kvStore, wipeVars, deletes, loads, reads>>

C11_NoCallWithoutConfirmation == [][C11_ConfirmedStep]_vars

\* a wipe has been confirmed and started, the text in the still open confirm
\* modal has been changed since, and a confirmed single-file delete is in
\* flight
C11_Witness ==
  /\ mounted
  /\ wipeCalls # <<>>
  /\ deletes # EmptyBag
  /\ showConfirm
  /\ confirmText = "delete"

\* no platform call of the screen is pending
Quiescent == wipePc = "idle" /\ deletes = EmptyBag /\ loads = EmptyBag

\* C13: once the screen has issued a wipe or deleted a file and every pending
\* platform call has settled, the files listed are the files the platform
\* holds.
C13_ListMatchesPlatform ==
  mounted /\ Quiescent /\ (wipeCalls # <<>> \/ platform # AllFiles) =>
    Range(files) = platform

\* C14: whenever the preview modal is displayed, previewUrl is the object URL
\* of the blob read from the file in previewFile, and previewType is the class
\* of that file's name.
C14_PreviewShowsCurrentFile ==
  mounted /\ PreviewShown =>
    /\ urlSource[previewUrl] = previewFile
    /\ previewType = (IF isImage(previewFile.name) THEN "image"
                      ELSE IF isPDF(previewFile.name) THEN "pdf" ELSE NullType)

\* C15: an error shown in the delete modal is the rejection of an fs.delete
\* issued for the file the modal shows, and the modal of a file is closed only
\* by Cancel or by the successful deletion of that same file, also when an
\* earlier fs.delete is still in flight.
C15_SettleStep ==
  \A F \in AllFiles :
    /\ mounted /\ fileToDelete # NoFile /\ DeleteResolve(F) => fileToDelete = F
    /\ \A err \in ErrValues :
         mounted /\ fileToDelete # NoFile /\ DeleteReject(F, err) =>
           fileToDelete = F
C15_ModalSettlesOwnDelete == [][C15_SettleStep]_vars

====
